---- MODULE Spec2Model ----
(***************************************************************************)
(* Kafka metadata handler of redpanda (src/v/kafka/server/handlers/        *)
(* metadata.cc): the versioned wire codec of the metadata request and      *)
(* response, and the topic resolution of get_topic_metadata / create_topic *)
(* / metadata_handler::handle.                                             *)
(***************************************************************************)
EXTENDS Integers, Sequences, FiniteSets, TLC

(***************************************************************************)
(* Bounds of the model.                                                    *)
(***************************************************************************)
\* longest requested-topics array a client sends
MaxTopics == 2
\* longest array (brokers, topics, partitions, node lists) of a response
\* handed to the response codec
MaxElems == 1
\* width of the wire's "int32", scaled down so that TLC can hold values
\* outside its range (the code's int32_t is 32 bits wide)
IntWidth == 5

\* highest protocol version the codec gates on
MaxVersion == 8
Versions == 0..MaxVersion

Int32Max == (2 ^ (IntWidth - 1)) - 1
Int32Min == -(2 ^ (IntWidth - 1))

(***************************************************************************)
(* Optional values: std::optional<T> is a sequence of length 0 or 1.       *)
(***************************************************************************)
None == << >>
Some(x) == << x >>
HasValue(o) == Len(o) = 1
ValueOf(o) == o[1]
ValueOr(o, d) == IF HasValue(o) THEN o[1] ELSE d

RECURSIVE Flatten(_)
Flatten(ss) == IF Len(ss) = 0 THEN << >> ELSE Head(ss) \o Flatten(Tail(ss))

\* all sequences over S of length at most n
SeqsUpTo(S, n) == UNION { [1..k -> S] : k \in 0..n }

(***************************************************************************)
(* Wire primitives (response_writer / request_reader).  The wire is a      *)
(* sequence of tokens, one per primitive written.                          *)
(***************************************************************************)
Tok(k, v) == [k |-> k, v |-> v]

\* int32_t(x): narrowing conversion, two's complement modulo 2^width
ToInt32(x) == ((x - Int32Min) % (2 ^ IntWidth)) + Int32Min

WriteInt32(x) == << Tok("int32", x) >>
WriteInt16(x) == << Tok("int16", x) >>
WriteBool(b) == << Tok("bool", b) >>
WriteString(s) == << Tok("string", Some(s)) >>
\* a nullable string: the null sentinel is distinct from every string
WriteNullableString(o) == << Tok("string", o) >>

\* sequencing: F applied to the value of t, which is computed once
Then(t, F(_)) == CHOOSE y \in { F(x) : x \in {t} } : TRUE

\* a reader: the unread tokens and whether every read so far succeeded
Reader(buf) == [buf |-> buf, ok |-> TRUE]
ReadFail(r, dflt) == [v |-> dflt, buf |-> r.buf, ok |-> FALSE]

\* read one token of kind k; an exhausted buffer or a token of another
\* kind fails the read (the reader throws)
ReadTok(r, k, dflt) ==
    IF r.ok /\ Len(r.buf) > 0 /\ Head(r.buf).k = k
    THEN [v |-> Head(r.buf).v, buf |-> Tail(r.buf), ok |-> TRUE]
    ELSE ReadFail(r, dflt)

ReadInt32(r) == ReadTok(r, "int32", 0)
ReadInt16(r) == ReadTok(r, "int16", "none")
ReadBool(r) == ReadTok(r, "bool", FALSE)
ReadNullableString(r) == ReadTok(r, "string", None)
ReadString(r) ==
    Then(ReadTok(r, "string", Some("")), LAMBDA t :
        IF t.ok /\ HasValue(t.v)
        THEN [v |-> ValueOf(t.v), buf |-> t.buf, ok |-> TRUE]
        ELSE ReadFail(r, ""))

Rest(t) == [buf |-> t.buf, ok |-> t.ok]

\* a field read when the version carries it, left at d otherwise
Gated(cond, t, r, d) == IF cond THEN t ELSE [v |-> d, buf |-> r.buf, ok |-> r.ok]

(***************************************************************************)
(* Arrays.  An array is (count, elements); a nullable array writes the     *)
(* count -1 for "absent", which is distinct from the count 0 of "empty".   *)
(***************************************************************************)
WriteArray(elems) == WriteInt32(Len(elems)) \o Flatten(elems)

WriteNullableArray(o_elems) ==
    IF HasValue(o_elems) THEN WriteArray(ValueOf(o_elems)) ELSE WriteInt32(-1)

\* n strings read in turn
RECURSIVE ReadStrings(_, _)
ReadStrings(r, n) ==
    IF n = 0 \/ ~r.ok
    THEN [v |-> << >>, buf |-> r.buf, ok |-> r.ok]
    ELSE Then(ReadString(r), LAMBDA s :
         Then(ReadStrings(Rest(s), n - 1), LAMBDA tl :
             [v |-> << s.v >> \o tl.v, buf |-> tl.buf, ok |-> tl.ok]))

\* n node ids read in turn
RECURSIVE ReadNodeIds(_, _)
ReadNodeIds(r, n) ==
    IF n = 0 \/ ~r.ok
    THEN [v |-> << >>, buf |-> r.buf, ok |-> r.ok]
    ELSE Then(ReadInt32(r), LAMBDA s :
         Then(ReadNodeIds(Rest(s), n - 1), LAMBDA tl :
             [v |-> << s.v >> \o tl.v, buf |-> tl.buf, ok |-> tl.ok]))

\* read_array of node ids: a negative count is malformed
ReadNodeIdArray(r) ==
    Then(ReadInt32(r), LAMBDA len :
        IF len.ok /\ len.v >= 0 THEN ReadNodeIds(Rest(len), len.v)
        ELSE ReadFail(r, << >>))

\* read_nullable_array of topic names: the count -1 reads as absent
ReadNullableTopicArray(r) ==
    Then(ReadInt32(r), LAMBDA len :
        IF ~len.ok THEN ReadFail(r, None)
        ELSE IF len.v = -1 THEN [v |-> None, buf |-> len.buf, ok |-> TRUE]
        ELSE IF len.v < 0 THEN ReadFail(r, None)
        ELSE Then(ReadStrings(Rest(len), len.v), LAMBDA a :
                 [v |-> Some(a.v), buf |-> a.buf, ok |-> a.ok]))

(***************************************************************************)
(* metadata_request                                                        *)
(***************************************************************************)
\* a default-constructed metadata_request
DefaultRequest ==
    [topics |-> None,
     allow_auto_topic_creation |-> TRUE,
     include_cluster_authorized_operations |-> FALSE,
     include_topic_authorized_operations |-> FALSE,
     list_all_topics |-> FALSE]

\* metadata_request::encode
EncodeRequest(x, version) ==
    WriteNullableArray(
        IF HasValue(x.topics)
        THEN Some([i \in 1..Len(ValueOf(x.topics)) |->
                      WriteString(ValueOf(x.topics)[i])])
        ELSE None)
    \o (IF version >= 4 THEN WriteBool(x.allow_auto_topic_creation) ELSE << >>)
    \o (IF version >= 8
        THEN WriteBool(x.include_cluster_authorized_operations)
             \o WriteBool(x.include_topic_authorized_operations)
        ELSE << >>)

\* the fields metadata_request::decode reads off the wire (lines 35-44),
\* before list_all_topics is derived
DecodeRequestFields(wire, version) ==
    Then(ReadNullableTopicArray(Reader(wire)), LAMBDA t :
    Then(Gated(version >= 4, ReadBool(Rest(t)), t,
               DefaultRequest.allow_auto_topic_creation), LAMBDA a :
    Then(Gated(version >= 8, ReadBool(Rest(a)), a,
               DefaultRequest.include_cluster_authorized_operations), LAMBDA c :
    Then(Gated(version >= 8, ReadBool(Rest(c)), c,
               DefaultRequest.include_topic_authorized_operations), LAMBDA o :
        [ok |-> o.ok,
         req |-> [topics |-> t.v,
                  allow_auto_topic_creation |-> a.v,
                  include_cluster_authorized_operations |-> c.v,
                  include_topic_authorized_operations |-> o.v,
                  list_all_topics |-> DefaultRequest.list_all_topics]]))))

\* ListAllTopicsValues with the version test of line 46 as >= 0
ListAllTopicsValuesAnyVersion(topics, version) ==
    IF version >= 0 THEN { ~HasValue(topics) }
    ELSE IF HasValue(topics) THEN { Len(ValueOf(topics)) = 0 }
    ELSE BOOLEAN

\* the values list_all_topics can take (lines 46-51).  At version 0 the
\* code evaluates topics->empty() without testing the optional: on an
\* absent array that reads a disengaged optional, which is undefined, so
\* either value may result.
ListAllTopicsValues(topics, version) ==
    IF version > 0 THEN { ~HasValue(topics) }
    ELSE IF HasValue(topics) THEN { Len(ValueOf(topics)) = 0 }
    ELSE BOOLEAN

\* whether decode dereferences a disengaged optional (line 50)
DecodeIsUndefined(topics, version) == version = 0 /\ ~HasValue(topics)

\* metadata_request::decode: every outcome of decoding `wire`.
\*   "ok"       the request was decoded
\*   "throw"    the reader threw on truncated or malformed input
\*   "abort"    the undefined read of line 50 ended the process
DecodeRequest(wire, version) ==
    LET f == DecodeRequestFields(wire, version)
    IN  IF ~f.ok THEN { [status |-> "throw", req |-> DefaultRequest] }
        ELSE { [status |-> "ok",
                req |-> [f.req EXCEPT !.list_all_topics = l]] :
                 l \in ListAllTopicsValues(f.req.topics, version) }
             \cup (IF DecodeIsUndefined(f.req.topics, version)
                   THEN { [status |-> "abort", req |-> f.req] }
                   ELSE { })

(***************************************************************************)
(* Topics, the metadata cache and the response entries built from it.      *)
(***************************************************************************)
KafkaNamespace == "kafka"
InternalNamespace == "redpanda"

\* topic names that are not materialized, and one materialized name
SourceTopics == {"a", "b"}
MaterializedTopic == "a.$m$"
TopicNames == SourceTopics \cup {MaterializedTopic}

\* model::is_materialized_topic
IsMaterializedTopic(topic) == topic = MaterializedTopic

\* model::get_source_topic: the topic itself unless it is materialized
GetSourceTopic(topic) == IF IsMaterializedTopic(topic) THEN "a" ELSE topic

TpNs(ns, tp) == [ns |-> ns, tp |-> tp]

BrokerShard(n, s) == [node_id |-> n, shard |-> s]

\* the partitions the cache holds for a topic: "b" has a partition without
\* an elected leader, and so has a topic that was just created
PartitionsOf(tp) ==
    IF tp = "a"
    THEN << [id |-> 0, leader_node |-> Some(1),
             replicas |-> << BrokerShard(1, 0), BrokerShard(2, 1) >>] >>
    ELSE IF tp = "b"
    THEN << [id |-> 0, leader_node |-> Some(2),
             replicas |-> << BrokerShard(2, 0) >>],
            [id |-> 1, leader_node |-> None,
             replicas |-> << BrokerShard(1, 1) >>] >>
    ELSE << [id |-> 0, leader_node |-> None,
             replicas |-> << BrokerShard(1, 0) >>] >>

\* model::topic_metadata of a topic of the cache
TopicMetadata(tp_ns) == [tp_ns |-> tp_ns, partitions |-> PartitionsOf(tp_ns.tp)]

\* metadata_cache::get_topic_metadata: the metadata, if the cache has it
CacheGetTopicMetadata(c, tp_ns) ==
    IF tp_ns \in c THEN Some(TopicMetadata(tp_ns)) ELSE None

\* a default-constructed metadata_response::topic
DefaultTopic ==
    [err_code |-> "none", name |-> "", is_internal |-> FALSE,
     partitions |-> << >>, topic_authorized_operations |-> 0]

\* MakePartition that leaves the leader of a partition without an elected
\* leader at the default-constructed node id
MakePartitionLeaderUnset(p_md) ==
    LET replicas == [i \in 1..Len(p_md.replicas) |-> p_md.replicas[i].node_id]
    IN  [err_code |-> "none",
         index |-> p_md.id,
         leader |-> ValueOr(p_md.leader_node, Int32Min),
         leader_epoch |-> 0,
         replica_nodes |-> replicas,
         isr_nodes |-> replicas,
         offline_replicas |-> << >>]

\* the partition lambda of make_from_topic_metadata (lines 230-247)
MakePartition(p_md) ==
    LET replicas == [i \in 1..Len(p_md.replicas) |-> p_md.replicas[i].node_id]
    IN  [err_code |-> "none",
         index |-> p_md.id,
         leader |-> ValueOr(p_md.leader_node, -1),
         leader_epoch |-> 0,
         replica_nodes |-> replicas,
         isr_nodes |-> replicas,
         offline_replicas |-> << >>]

\* metadata_response::topic::make_from_topic_metadata(tp_md)
MakeFromTopicMetadata(tp_md) ==
    [DefaultTopic EXCEPT
        !.err_code = "none",
        !.name = tp_md.tp_ns.tp,
        !.is_internal = FALSE,
        !.partitions = [i \in 1..Len(tp_md.partitions) |->
                           MakePartition(tp_md.partitions[i])]]

\* metadata_response::topic::make_from_topic_metadata(tp_md, topic): the
\* overload that answers under the requested, materialized name
MakeFromTopicMetadataAs(tp_md, topic) ==
    LET tp == MakeFromTopicMetadata(tp_md)
    IN  IF topic # tp.name /\ IsMaterializedTopic(topic)
        THEN [tp EXCEPT !.name = topic]
        ELSE tp

\* MakeErrorTopicResponse that starts from the topic's cached metadata and
\* only sets the error code, so that the stub still lists partitions
MakeErrorTopicResponseFromMetadata(tp, ec) ==
    [MakeFromTopicMetadata(TopicMetadata(TpNs(KafkaNamespace, tp))) EXCEPT
        !.err_code = ec]

\* make_error_topic_response
MakeErrorTopicResponse(tp, ec) ==
    [DefaultTopic EXCEPT !.err_code = ec, !.name = tp]

(***************************************************************************)
(* State.                                                                  *)
(***************************************************************************)
VARIABLES
    \* the connection and the client
    version,        \* ctx.header().version
    client,         \* the request the client encodes
    wire,           \* the request bytes the handler reads
    \* the collaborators
    describe_acl,   \* topics the principal may describe
    create_acl,     \* topics the principal may create
    auto_create,    \* config: auto_create_topics_enabled
    cache,          \* metadata cache: the topic_namespaces it holds
    cache_brokers,  \* metadata cache: the brokers
    controller,     \* metadata cache: the controller leader id, if known
    \* metadata_handler::handle and get_topic_metadata
    pc,             \* where the handler is
    request,        \* metadata_request request
    reply,          \* metadata_response reply
    res,            \* get_topic_metadata: res
    origin,         \* for each entry of res, the position in the request
                    \* of the name it answers (bookkeeping, not program state)
    new_topics,     \* get_topic_metadata: the create_topic futures
    next,           \* get_topic_metadata: position of the loop
    response,       \* what ctx.respond was given, if it was called
    \* the response codec on its own
    cpc, cver, cx, cwire, cout

hvars == << version, client, wire, describe_acl, create_acl,
            auto_create, cache, cache_brokers, controller, pc, request,
            reply, res, origin, new_topics, next, response >>
cvars == << cpc, cver, cx, cwire, cout >>
vars == << hvars, cvars >>

\* the listener the connection is served on
Listener == "internal"

Broker(id, rack, listeners) == [id |-> id, rack |-> rack, listeners |-> listeners]
Endpoint(name, host, port) == [name |-> name, host |-> host, port |-> port]

\* the brokers of the cluster: broker 1 advertises two listeners, the
\* serving one second; broker 2 one; broker 3 none on the serving listener.
\* The listeners of a broker have distinct names.
ClusterBrokers ==
    << Broker(1, Some("r1"), << Endpoint("external", "x1", 10),
                                Endpoint("internal", "h1", 9) >>),
       Broker(2, None, << Endpoint("internal", "h2", 9) >>),
       Broker(3, None, << Endpoint("external", "x3", 10) >>) >>

\* a default-constructed metadata_response
DefaultResponse ==
    [throttle_time |-> 0, brokers |-> << >>, cluster_id |-> None,
     controller_id |-> Int32Min, topics |-> << >>,
     cluster_authorized_operations |-> 0]

\* ctx.authorized(operation, topic)
Authorized(op, topic) ==
    IF op = "describe" THEN topic \in describe_acl ELSE topic \in create_acl

\* details::to_bit_field(details::authorized_operations(ctx, topic))
TopicAuthorizedOperations(topic) ==
    (IF Authorized("describe", topic) THEN 256 ELSE 0)
    + (IF Authorized("create", topic) THEN 8 ELSE 0)

\* details::to_bit_field(details::authorized_operations(ctx, cluster))
ClusterAuthorizedOperations == 256

\* make_topic_response
MakeTopicResponse(rq, md) ==
    LET auth_operations ==
            IF rq.include_topic_authorized_operations
            THEN TopicAuthorizedOperations(md.tp_ns.tp)
            ELSE 0
    IN  [MakeFromTopicMetadata(md) EXCEPT
            !.topic_authorized_operations = auth_operations]

\* the requests a client sends at a version: the flags a version does not
\* carry stay at their defaults
ClientRequests(v) ==
    { [topics |-> t,
       allow_auto_topic_creation |-> a,
       include_cluster_authorized_operations |-> c,
       include_topic_authorized_operations |-> o,
       list_all_topics |-> FALSE] :
        t \in {None} \cup { Some(q) : q \in SeqsUpTo(TopicNames, MaxTopics) },
        a \in IF v >= 4 THEN BOOLEAN ELSE {TRUE},
        c \in IF v >= 8 THEN BOOLEAN ELSE {FALSE},
        o \in IF v >= 8 THEN BOOLEAN ELSE {FALSE} }

\* the states of the codec variables while the handler runs
CodecIdle ==
    /\ cpc = "idle" /\ cver = 0 /\ cx = << >> /\ cwire = << >> /\ cout = << >>

Init ==
    /\ version \in Versions
    /\ client \in ClientRequests(version)
    /\ wire = << >>
    /\ describe_acl \in SUBSET SourceTopics
    /\ create_acl \in SUBSET SourceTopics
    /\ auto_create \in BOOLEAN
    /\ cache \in { {TpNs(InternalNamespace, "b")} \cup { TpNs(KafkaNamespace, t) : t \in T } :
                     T \in SUBSET SourceTopics }
    /\ cache_brokers = ClusterBrokers
    /\ controller = Some(1)
    /\ pc = "client"
    /\ request = DefaultRequest
    /\ reply = DefaultResponse
    /\ res = << >>
    /\ origin = << >>
    /\ new_topics = << >>
    /\ next = 1
    /\ response = None
    /\ CodecIdle

(***************************************************************************)
(* metadata_response: encode and decode                                    *)
(***************************************************************************)
WriteNodeIds(nodes) == WriteArray([i \in 1..Len(nodes) |-> WriteInt32(nodes[i])])

\* metadata_response::partition::encode
EncodePartition(p, v) ==
    WriteInt16(p.err_code)
    \o WriteInt32(p.index)
    \o WriteInt32(p.leader)
    \o (IF v >= 7 THEN WriteInt32(p.leader_epoch) ELSE << >>)
    \o WriteNodeIds(p.replica_nodes)
    \o WriteNodeIds(p.isr_nodes)
    \o (IF v >= 5 THEN WriteNodeIds(p.offline_replicas) ELSE << >>)

\* metadata_response::topic::encode
EncodeTopic(tp, v) ==
    WriteInt16(tp.err_code)
    \o WriteString(tp.name)
    \o (IF v >= 1 THEN WriteBool(tp.is_internal) ELSE << >>)
    \o WriteArray([i \in 1..Len(tp.partitions) |-> EncodePartition(tp.partitions[i], v)])
    \o (IF v >= 8 THEN WriteInt32(tp.topic_authorized_operations) ELSE << >>)

\* EncodeBroker that writes the rack at every version
EncodeBrokerAlwaysRack(b, v) ==
    WriteInt32(b.node_id)
    \o WriteString(b.host)
    \o WriteInt32(b.port)
    \o WriteNullableString(b.rack)

\* the broker lambda of metadata_response::encode (lines 87-94)
EncodeBroker(b, v) ==
    WriteInt32(b.node_id)
    \o WriteString(b.host)
    \o WriteInt32(b.port)
    \o (IF v >= 1 THEN WriteNullableString(b.rack) ELSE << >>)

\* metadata_response::encode
EncodeResponse(x, v) ==
    (IF v >= 3 THEN WriteInt32(ToInt32(x.throttle_time)) ELSE << >>)
    \o WriteArray([i \in 1..Len(x.brokers) |-> EncodeBroker(x.brokers[i], v)])
    \o (IF v >= 2 THEN WriteNullableString(x.cluster_id) ELSE << >>)
    \o (IF v >= 1 THEN WriteInt32(x.controller_id) ELSE << >>)
    \o WriteArray([i \in 1..Len(x.topics) |-> EncodeTopic(x.topics[i], v)])
    \o (IF v >= 8 THEN WriteInt32(x.cluster_authorized_operations) ELSE << >>)

\* a value-initialized metadata_response::partition and ::broker
DefaultPartition ==
    [err_code |-> "none", index |-> 0, leader |-> Int32Min, leader_epoch |-> 0,
     replica_nodes |-> << >>, isr_nodes |-> << >>, offline_replicas |-> << >>]
DefaultBroker == [node_id |-> Int32Min, host |-> "", port |-> 0, rack |-> None]

\* the partition lambda of metadata_response::decode (lines 185-208)
DecodePartition(r, v) ==
    Then(ReadInt16(r), LAMBDA e :
    Then(ReadInt32(Rest(e)), LAMBDA i :
    Then(ReadInt32(Rest(i)), LAMBDA l :
    Then(Gated(v >= 7, ReadInt32(Rest(l)), l,
               DefaultPartition.leader_epoch), LAMBDA le :
    Then(ReadNodeIdArray(Rest(le)), LAMBDA rn :
    Then(ReadNodeIdArray(Rest(rn)), LAMBDA isr :
    Then(Gated(v >= 5, ReadNodeIdArray(Rest(isr)), isr,
               DefaultPartition.offline_replicas), LAMBDA off :
        [v |-> [err_code |-> e.v, index |-> i.v, leader |-> l.v,
                leader_epoch |-> le.v, replica_nodes |-> rn.v,
                isr_nodes |-> isr.v, offline_replicas |-> off.v],
         buf |-> off.buf, ok |-> off.ok])))))))

RECURSIVE DecodePartitions(_, _, _)
DecodePartitions(r, n, v) ==
    IF n = 0 \/ ~r.ok
    THEN [v |-> << >>, buf |-> r.buf, ok |-> r.ok]
    ELSE Then(DecodePartition(r, v), LAMBDA hd :
         Then(DecodePartitions(Rest(hd), n - 1, v), LAMBDA tl :
             [v |-> << hd.v >> \o tl.v, buf |-> tl.buf, ok |-> tl.ok]))

\* read_array of partitions (line 185): a negative count is malformed
DecodePartitionArray(r, v) ==
    Then(ReadInt32(r), LAMBDA len :
        IF len.ok /\ len.v >= 0 THEN DecodePartitions(Rest(len), len.v, v)
        ELSE ReadFail(r, << >>))

\* the topic lambda of metadata_response::decode (lines 177-213)
DecodeTopic(r, v) ==
    Then(ReadInt16(r), LAMBDA e :
    Then(ReadString(Rest(e)), LAMBDA nm :
    Then(Gated(v >= 1, ReadBool(Rest(nm)), nm,
               DefaultTopic.is_internal), LAMBDA int :
    Then(DecodePartitionArray(Rest(int), v), LAMBDA ps :
    Then(Gated(v >= 8, ReadInt32(Rest(ps)), ps,
               DefaultTopic.topic_authorized_operations), LAMBDA ops :
        [v |-> [err_code |-> e.v, name |-> nm.v, is_internal |-> int.v,
                partitions |-> ps.v, topic_authorized_operations |-> ops.v],
         buf |-> ops.buf, ok |-> ops.ok])))))

RECURSIVE DecodeTopics(_, _, _)
DecodeTopics(r, n, v) ==
    IF n = 0 \/ ~r.ok
    THEN [v |-> << >>, buf |-> r.buf, ok |-> r.ok]
    ELSE Then(DecodeTopic(r, v), LAMBDA hd :
         Then(DecodeTopics(Rest(hd), n - 1, v), LAMBDA tl :
             [v |-> << hd.v >> \o tl.v, buf |-> tl.buf, ok |-> tl.ok]))

\* read_array of topics (line 177)
DecodeTopicArray(r, v) ==
    Then(ReadInt32(r), LAMBDA len :
        IF len.ok /\ len.v >= 0 THEN DecodeTopics(Rest(len), len.v, v)
        ELSE ReadFail(r, << >>))

\* the broker lambda of metadata_response::decode (lines 157-167)
DecodeBroker(r, v) ==
    Then(ReadInt32(r), LAMBDA id :
    Then(ReadString(Rest(id)), LAMBDA h :
    Then(ReadInt32(Rest(h)), LAMBDA p :
    Then(Gated(v >= 1, ReadNullableString(Rest(p)), p,
               DefaultBroker.rack), LAMBDA rk :
        [v |-> [node_id |-> id.v, host |-> h.v, port |-> p.v, rack |-> rk.v],
         buf |-> rk.buf, ok |-> rk.ok]))))

RECURSIVE DecodeBrokers(_, _, _)
DecodeBrokers(r, n, v) ==
    IF n = 0 \/ ~r.ok
    THEN [v |-> << >>, buf |-> r.buf, ok |-> r.ok]
    ELSE Then(DecodeBroker(r, v), LAMBDA hd :
         Then(DecodeBrokers(Rest(hd), n - 1, v), LAMBDA tl :
             [v |-> << hd.v >> \o tl.v, buf |-> tl.buf, ok |-> tl.ok]))

\* read_array of brokers (line 157)
DecodeBrokerArray(r, v) ==
    Then(ReadInt32(r), LAMBDA len :
        IF len.ok /\ len.v >= 0 THEN DecodeBrokers(Rest(len), len.v, v)
        ELSE ReadFail(r, << >>))

\* metadata_response::decode, into a default-constructed response
DecodeResponse(buf, v) ==
    Then(Reader(buf), LAMBDA r0 :
    Then(Gated(v >= 3, ReadInt32(r0), r0,
               DefaultResponse.throttle_time), LAMBDA th :
    Then(DecodeBrokerArray(Rest(th), v), LAMBDA bs :
    Then(Gated(v >= 2, ReadNullableString(Rest(bs)), bs,
               DefaultResponse.cluster_id), LAMBDA cid :
    Then(Gated(v >= 1, ReadInt32(Rest(cid)), cid,
               DefaultResponse.controller_id), LAMBDA ctl :
    Then(DecodeTopicArray(Rest(ctl), v), LAMBDA ts :
    Then(Gated(v >= 8, ReadInt32(Rest(ts)), ts,
               DefaultResponse.cluster_authorized_operations), LAMBDA ops :
        [ok |-> ops.ok,
         buf |-> ops.buf,
         resp |-> [throttle_time |-> th.v, brokers |-> bs.v,
                   cluster_id |-> cid.v, controller_id |-> ctl.v,
                   topics |-> ts.v,
                   cluster_authorized_operations |-> ops.v]])))))))

(***************************************************************************)
(* The client.                                                             *)
(***************************************************************************)
\* what reaches the handler: the encoded request, whole or cut short
Truncations(w) == { SubSeq(w, 1, Len(w) - 1) }

ClientSend ==
    /\ pc = "client"
    /\ \E w \in {EncodeRequest(client, version)}
                \cup Truncations(EncodeRequest(client, version)) :
          wire' = w
    /\ pc' = "handle"
    /\ UNCHANGED << version, client, describe_acl, create_acl,
                    auto_create, cache, cache_brokers, controller, request,
                    reply, res, origin, new_topics, next, response >>
    /\ UNCHANGED cvars

(***************************************************************************)
(* metadata_handler::handle                                                *)
(***************************************************************************)
\* MatchingListeners without the test of line 460
MatchingListenersUnfiltered(broker) == broker.listeners

\* the listeners of a broker that the connection is served on (line 460)
MatchingListeners(broker) ==
    SelectSeq(broker.listeners, LAMBDA l : l.name = Listener)

\* the reply's brokers (lines 457-468)
ReplyBrokers(brokers) ==
    Flatten([b \in 1..Len(brokers) |->
        LET ls == MatchingListeners(brokers[b])
        IN  [l \in 1..Len(ls) |->
                [node_id |-> brokers[b].id, host |-> ls[l].host,
                 port |-> ls[l].port, rack |-> brokers[b].rack]]])

\* lines 454-474: the brokers, the cluster id and the controller id
HandleStart ==
    /\ pc = "handle"
    /\ reply' = [reply EXCEPT
                    !.brokers = ReplyBrokers(cache_brokers),
                    !.cluster_id = None,
                    !.controller_id = ValueOr(controller, -1)]
    /\ pc' = "decode"
    /\ UNCHANGED << version, client, wire, describe_acl, create_acl,
                    auto_create, cache, cache_brokers,
                    controller, request, res, origin, new_topics, next,
                    response >>
    /\ UNCHANGED cvars

\* HandleDecode that goes on after the reader threw
HandleDecodeSwallow ==
    /\ pc = "decode"
    /\ \E o \in DecodeRequest(wire, version) :
          /\ request' = o.req
          /\ pc' = CASE o.status = "ok" -> "get_topic_metadata"
                     [] o.status = "throw" -> "get_topic_metadata"
                     [] OTHER -> "aborted"
    /\ UNCHANGED << version, client, wire, describe_acl, create_acl,
                    auto_create, cache, cache_brokers,
                    controller, reply, res, origin, new_topics, next,
                    response >>
    /\ UNCHANGED cvars

\* lines 476-477: request.decode(ctx).  A throw leaves the coroutine with
\* the exception; the undefined read may end the process.
HandleDecode ==
    /\ pc = "decode"
    /\ \E o \in DecodeRequest(wire, version) :
          /\ request' = o.req
          /\ pc' = CASE o.status = "ok" -> "get_topic_metadata"
                     [] o.status = "throw" -> "failed"
                     [] OTHER -> "aborted"
    /\ UNCHANGED << version, client, wire, describe_acl, create_acl,
                    auto_create, cache, cache_brokers,
                    controller, reply, res, origin, new_topics, next,
                    response >>
    /\ UNCHANGED cvars

(***************************************************************************)
(* create_topic                                                            *)
(***************************************************************************)
\* what topics_frontend::autocreate_topics can do with the one topic it is
\* given: fail the call (an exception, a timeout included), or return one
\* result for the topic; `visible` says whether the cache holds the topic
\* when the result is handled
CreationOutcomes ==
    { [kind |-> "exception", ec |-> "timeout", visible |-> FALSE] }
    \cup { [kind |-> "result", ec |-> "topic_invalid_config", visible |-> FALSE] }
    \cup { [kind |-> "result", ec |-> e, visible |-> v] :
             e \in {"success", "topic_already_exists"}, v \in BOOLEAN }

\* map_topic_error_code
MapTopicErrorCode(ec) ==
    CASE ec = "success" -> "none"
      [] ec = "topic_already_exists" -> "topic_already_exists"
      [] ec = "topic_invalid_config" -> "invalid_config"
      [] OTHER -> "unknown_server_error"

\* the cluster::topic_result of a creation that returned: the topic is the
\* one of the configuration submitted (lines 308-312)
TopicResult(topic, ec) == [tp_ns |-> TpNs(KafkaNamespace, topic), ec |-> ec]

\* CreateTopicThen that takes only success as created, so that a topic
\* another creator made first is answered with the mapped error
CreateTopicThenSuccessOnly(r, md_cache) ==
    IF ~(r.ec = "success")
    THEN [DefaultTopic EXCEPT !.name = r.tp_ns.tp,
                              !.err_code = MapTopicErrorCode(r.ec)]
    ELSE LET tp_md == CacheGetTopicMetadata(md_cache, r.tp_ns)
         IN  IF ~HasValue(tp_md)
             THEN [DefaultTopic EXCEPT !.name = r.tp_ns.tp,
                                       !.err_code = "invalid_topic_exception"]
             ELSE MakeFromTopicMetadata(ValueOf(tp_md))

\* the continuation of lines 317-340
CreateTopicThen(r, md_cache) ==
    IF ~(r.ec = "success" \/ r.ec = "topic_already_exists")
    THEN [DefaultTopic EXCEPT !.name = r.tp_ns.tp,
                              !.err_code = MapTopicErrorCode(r.ec)]
    ELSE LET tp_md == CacheGetTopicMetadata(md_cache, r.tp_ns)
         IN  IF ~HasValue(tp_md)
             THEN [DefaultTopic EXCEPT !.name = r.tp_ns.tp,
                                       !.err_code = "invalid_topic_exception"]
             ELSE MakeFromTopicMetadata(ValueOf(tp_md))

\* CreateTopicHandleException that leaves the stub without the name
CreateTopicHandleExceptionUnnamed(topic) ==
    [DefaultTopic EXCEPT !.err_code = "request_timed_out"]

\* the exception handler of lines 341-347
CreateTopicHandleException(topic) ==
    [DefaultTopic EXCEPT !.name = topic, !.err_code = "request_timed_out"]

\* a future: pending, ready with a value, or failed with an exception
PendingFuture(topic, idx) ==
    [topic |-> topic, req_index |-> idx, state |-> "pending",
     value |-> DefaultTopic, outcome |-> "none"]

\* CreateTopicSettled without the exception handler: the future fails
CreateTopicSettledUnhandled(f, o, md_cache) ==
    IF o.kind = "exception"
    THEN [f EXCEPT !.state = "failed", !.outcome = o.kind]
    ELSE [f EXCEPT !.state = "ready",
                   !.value = CreateTopicThen(TopicResult(f.topic, o.ec), md_cache),
                   !.outcome = o.ec]

\* the future create_topic returns, once the creation call has settled
CreateTopicSettled(f, o, md_cache) ==
    IF o.kind = "exception"
    THEN [f EXCEPT !.state = "ready",
                   !.value = CreateTopicHandleException(f.topic),
                   !.outcome = o.kind]
    ELSE [f EXCEPT !.state = "ready",
                   !.value = CreateTopicThen(TopicResult(f.topic, o.ec), md_cache),
                   !.outcome = o.ec]

(***************************************************************************)
(* get_topic_metadata                                                      *)
(***************************************************************************)
\* PushBack that skips an element equal to one already held
PushBackUnique(v, e) ==
    IF \E k \in 1..Len(v) : v[k] = e THEN v ELSE Append(v, e)

\* std::vector::push_back
PushBack(v, e) == Append(v, e)

\* InsertAtEnd with the created topics put in front of res
InsertAtFront(v, w) == w \o v

\* res.insert(res.end(), topics.begin(), topics.end())
InsertAtEnd(v, w) == v \o w

\* the orders in which the cache can hand out the members of a set
Orderings(S) ==
    { f \in [1..Cardinality(S) -> S] :
        \A i, j \in 1..Cardinality(S) : f[i] = f[j] => i = j }

\* std::erase_if of the topics outside the kafka namespace (lines 380-382)
EraseNotKafka(topics) ==
    SelectSeq(topics, LAMBDA t_md : ~(t_md.tp_ns.ns # KafkaNamespace))

\* std::partition by describe permission (lines 384-390): the authorized
\* topics first; the position of the first unauthorized one
PartitionDescribe(topics) ==
    LET yes == SelectSeq(topics, LAMBDA t_md : Authorized("describe", t_md.tp_ns.tp))
        no == SelectSeq(topics, LAMBDA t_md : ~Authorized("describe", t_md.tp_ns.tp))
    IN  [topics |-> yes \o no, unauthorized_it |-> Len(yes) + 1]

\* ListAllTopics that transforms up to topics.end()
ListAllTopicsToEnd(snapshot) ==
    LET p == PartitionDescribe(EraseNotKafka(snapshot))
    IN  [i \in 1..Len(p.topics) |-> MakeTopicResponse(request, p.topics[i])]

\* lines 377-400: the topics of a list-all request, from a snapshot
ListAllTopics(snapshot) ==
    LET p == PartitionDescribe(EraseNotKafka(snapshot))
    IN  [i \in 1..(p.unauthorized_it - 1) |->
            MakeTopicResponse(request, p.topics[i])]

\* ResolveTopic that looks the topic up first and tests the describe
\* permission only for a topic the cache holds
ResolveTopicLookupFirst(topic) ==
    LET source_topic == GetSourceTopic(topic)
        md == CacheGetTopicMetadata(cache, TpNs(KafkaNamespace, source_topic))
    IN  IF HasValue(md)
        THEN IF ~Authorized("describe", source_topic)
             THEN Some(MakeErrorTopicResponse(topic, "topic_authorization_failed"))
             ELSE Some(MakeTopicResponse(request, ValueOf(md)))
        ELSE IF ~auto_create \/ ~request.allow_auto_topic_creation
        THEN Some(MakeErrorTopicResponse(topic, "unknown_topic_or_partition"))
        ELSE IF ~Authorized("create", source_topic)
        THEN Some(MakeErrorTopicResponse(topic, "topic_authorization_failed"))
        ELSE None

\* ResolveTopic without the create test of line 435
ResolveTopicNoCreateTest(topic) ==
    LET source_topic == GetSourceTopic(topic)
        md == CacheGetTopicMetadata(cache, TpNs(KafkaNamespace, source_topic))
    IN  IF ~Authorized("describe", source_topic)
        THEN Some(MakeErrorTopicResponse(topic, "topic_authorization_failed"))
        ELSE IF HasValue(md)
        THEN Some(MakeTopicResponse(request, ValueOf(md)))
        ELSE IF ~auto_create \/ ~request.allow_auto_topic_creation
        THEN Some(MakeErrorTopicResponse(topic, "unknown_topic_or_partition"))
        ELSE None

\* ResolveTopic with the test of lines 425-427 as a conjunction
ResolveTopicBothDisabled(topic) ==
    LET source_topic == GetSourceTopic(topic)
        md == CacheGetTopicMetadata(cache, TpNs(KafkaNamespace, source_topic))
    IN  IF ~Authorized("describe", source_topic)
        THEN Some(MakeErrorTopicResponse(topic, "topic_authorization_failed"))
        ELSE IF HasValue(md)
        THEN Some(MakeTopicResponse(request, ValueOf(md)))
        ELSE IF ~auto_create /\ ~request.allow_auto_topic_creation
        THEN Some(MakeErrorTopicResponse(topic, "unknown_topic_or_partition"))
        ELSE IF ~Authorized("create", source_topic)
        THEN Some(MakeErrorTopicResponse(topic, "topic_authorization_failed"))
        ELSE None

\* one pass of the loop of lines 404-441 over a requested name: the entry
\* pushed to res, or none when a creation is submitted
ResolveTopic(topic) ==
    LET source_topic == GetSourceTopic(topic)
        md == CacheGetTopicMetadata(cache, TpNs(KafkaNamespace, source_topic))
    IN  IF ~Authorized("describe", source_topic)
        THEN Some(MakeErrorTopicResponse(topic, "topic_authorization_failed"))
        ELSE IF HasValue(md)
        THEN Some(MakeTopicResponse(request, ValueOf(md)))
        ELSE IF ~auto_create \/ ~request.allow_auto_topic_creation
        THEN Some(MakeErrorTopicResponse(topic, "unknown_topic_or_partition"))
        ELSE IF ~Authorized("create", source_topic)
        THEN Some(MakeErrorTopicResponse(topic, "topic_authorization_failed"))
        ELSE None

InLoop ==
    /\ pc = "get_topic_metadata"
    /\ ~request.list_all_topics
    /\ HasValue(request.topics)
    /\ next <= Len(ValueOf(request.topics))

\* the handler is suspended in when_all_succeed (line 443)
Suspended ==
    /\ pc = "get_topic_metadata"
    /\ ~request.list_all_topics
    /\ HasValue(request.topics)
    /\ next > Len(ValueOf(request.topics))

\* lines 377-400
GetTopicMetadataListAll ==
    /\ pc = "get_topic_metadata"
    /\ request.list_all_topics
    /\ \E snapshot \in Orderings({ TopicMetadata(t) : t \in cache }) :
          res' = ListAllTopics(snapshot)
    /\ origin' = [i \in 1..Len(res') |-> 0]
    /\ reply' = [reply EXCEPT !.topics = res']
    /\ pc' = "respond"
    /\ UNCHANGED << version, client, wire, describe_acl, create_acl,
                    auto_create, cache, cache_brokers,
                    controller, request, new_topics, next, response >>
    /\ UNCHANGED cvars

\* lines 404-441, one requested name
GetTopicMetadataLoop ==
    /\ InLoop
    /\ LET topic == ValueOf(request.topics)[next]
           r == ResolveTopic(topic)
       IN  IF HasValue(r)
           THEN /\ res' = PushBack(res, ValueOf(r))
                /\ origin' = PushBack(origin, next)
                /\ UNCHANGED new_topics
           ELSE /\ new_topics' = PushBack(new_topics, PendingFuture(topic, next))
                /\ UNCHANGED << res, origin >>
    /\ next' = next + 1
    /\ UNCHANGED << version, client, wire, describe_acl, create_acl,
                    auto_create, cache, cache_brokers,
                    controller, pc, request, reply, response >>
    /\ UNCHANGED cvars

\* a creation call settles while the handler is suspended; a creation that
\* succeeded, or found the topic, may have put the topic in the cache
CreateTopicSettle ==
    /\ Suspended
    /\ \E i \in 1..Len(new_topics) : \E o \in CreationOutcomes :
          /\ new_topics[i].state = "pending"
          /\ cache' = IF o.visible
                      THEN cache \cup {TpNs(KafkaNamespace, new_topics[i].topic)}
                      ELSE cache
          /\ new_topics' = [new_topics EXCEPT
                               ![i] = CreateTopicSettled(new_topics[i], o, cache')]
    /\ UNCHANGED << version, client, wire, describe_acl, create_acl,
                    auto_create, cache_brokers, controller, pc,
                    request, reply, res, origin, next, response >>
    /\ UNCHANGED cvars

\* the cluster changes while the handler is suspended at line 479: broker 1,
\* the controller, leaves, and the cache no longer knows a controller leader
ClusterChange ==
    /\ Suspended
    /\ \E i \in 1..Len(new_topics) : new_topics[i].state = "pending"
    /\ controller = Some(1)
    /\ cache_brokers' = Tail(cache_brokers)
    /\ controller' = None
    /\ UNCHANGED << version, client, wire, describe_acl, create_acl,
                    auto_create, cache, pc, request, reply, res, origin,
                    new_topics, next, response >>
    /\ UNCHANGED cvars

\* WhenAllSucceed that goes on as soon as the loop has ended, without
\* waiting for the futures
WhenAllSucceedNoWait ==
    /\ Suspended
    /\ res' = InsertAtEnd(res, [i \in 1..Len(new_topics) |-> new_topics[i].value])
    /\ origin' = InsertAtEnd(origin, [i \in 1..Len(new_topics) |-> new_topics[i].req_index])
    /\ reply' = [reply EXCEPT !.topics = res']
    /\ pc' = "respond"
    /\ UNCHANGED << version, client, wire, describe_acl, create_acl,
                    auto_create, cache, cache_brokers,
                    controller, request, new_topics, next, response >>
    /\ UNCHANGED cvars

\* lines 443-448, and the assignment of line 479: every future has settled;
\* a failed one fails the handler
WhenAllSucceed ==
    /\ Suspended
    /\ \A i \in 1..Len(new_topics) : new_topics[i].state # "pending"
    /\ IF \E i \in 1..Len(new_topics) : new_topics[i].state = "failed"
       THEN /\ pc' = "failed"
            /\ UNCHANGED << res, origin, reply >>
       ELSE /\ res' = InsertAtEnd(res, [i \in 1..Len(new_topics) |-> new_topics[i].value])
            /\ origin' = InsertAtEnd(origin, [i \in 1..Len(new_topics) |-> new_topics[i].req_index])
            /\ reply' = [reply EXCEPT !.topics = res']
            /\ pc' = "respond"
    /\ UNCHANGED << version, client, wire, describe_acl, create_acl,
                    auto_create, cache, cache_brokers,
                    controller, request, new_topics, next, response >>
    /\ UNCHANGED cvars

\* line 404 when request.topics is disengaged (version 0, absent array,
\* list_all_topics read as false): *request.topics is undefined; the loop
\* runs over nothing, or the process ends
GetTopicMetadataUndefined ==
    /\ pc = "get_topic_metadata"
    /\ ~request.list_all_topics
    /\ ~HasValue(request.topics)
    /\ \/ /\ pc' = "respond"
          /\ reply' = [reply EXCEPT !.topics = res]
       \/ /\ pc' = "aborted"
          /\ UNCHANGED reply
    /\ UNCHANGED << version, client, wire, describe_acl, create_acl,
                    auto_create, cache, cache_brokers,
                    controller, request, res, origin, new_topics, next,
                    response >>
    /\ UNCHANGED cvars

\* HandleRespond that reads the brokers and the controller from the cache
\* again before it responds
HandleRespondRereads ==
    /\ pc = "respond"
    /\ \E cluster_authorized \in BOOLEAN :
        reply' = [(IF /\ request.include_cluster_authorized_operations
                      /\ cluster_authorized
                   THEN [reply EXCEPT !.cluster_authorized_operations =
                                          ClusterAuthorizedOperations]
                   ELSE reply) EXCEPT
                     !.brokers = ReplyBrokers(cache_brokers),
                     !.controller_id = ValueOr(controller, -1)]
    /\ response' = Some(reply')
    /\ pc' = "done"
    /\ UNCHANGED << version, client, wire, describe_acl, create_acl,
                    auto_create, cache, cache_brokers,
                    controller, request, res, origin, new_topics, next >>
    /\ UNCHANGED cvars

\* lines 481-489: the cluster's authorized operations, and the response;
\* cluster_authorized is the authorizer's answer for the cluster
HandleRespond ==
    /\ pc = "respond"
    /\ \E cluster_authorized \in BOOLEAN :
        reply' = IF /\ request.include_cluster_authorized_operations
                   /\ cluster_authorized
                THEN [reply EXCEPT !.cluster_authorized_operations =
                                       ClusterAuthorizedOperations]
                ELSE reply
    /\ response' = Some(reply')
    /\ pc' = "done"
    /\ UNCHANGED << version, client, wire, describe_acl, create_acl,
                    auto_create, cache, cache_brokers,
                    controller, request, res, origin, new_topics, next >>
    /\ UNCHANGED cvars

Next ==
    \/ ClientSend
    \/ HandleStart
    \/ HandleDecode
    \/ GetTopicMetadataListAll
    \/ GetTopicMetadataLoop
    \/ CreateTopicSettle
    \/ ClusterChange
    \/ WhenAllSucceed
    \/ GetTopicMetadataUndefined
    \/ HandleRespond

Spec == Init /\ [][Next]_vars

\* the steps of the handler, and the handler with its scheduling: a step of
\* the handler that can be taken is taken, and a creation call that is
\* pending returns or fails by its timeout
HandlerStep ==
    \/ HandleStart
    \/ HandleDecode
    \/ GetTopicMetadataListAll
    \/ GetTopicMetadataLoop
    \/ WhenAllSucceed
    \/ GetTopicMetadataUndefined
    \/ HandleRespond

FairSpec == Spec /\ WF_vars(HandlerStep) /\ WF_vars(CreateTopicSettle)

(***************************************************************************)
(* The response codec on its own: a response is encoded at a version and   *)
(* the bytes are decoded at the same version.                              *)
(***************************************************************************)
\* throttle times: zero, one that fits the wire's int32, one that does not
ThrottleTimes == {0, 7, Int32Max + 1}

\* a response with nb brokers and nt topics of np partitions with nr
\* replicas and no offline replicas; `rich` sets every field a version
\* gates to a value other than its default
ResponseOf(throttle, rich, nb, nt, np, nr, no) ==
    [throttle_time |-> throttle,
     brokers |-> [i \in 1..nb |->
                    [node_id |-> i, host |-> "h", port |-> 9,
                     rack |-> IF rich THEN Some("r") ELSE None]],
     cluster_id |-> IF rich THEN Some("c") ELSE DefaultResponse.cluster_id,
     controller_id |-> IF rich THEN 1 ELSE DefaultResponse.controller_id,
     topics |-> [i \in 1..nt |->
                   [err_code |-> IF rich THEN "unknown_topic_or_partition" ELSE "none",
                    name |-> "a",
                    is_internal |-> rich,
                    partitions |-> [j \in 1..np |->
                        [err_code |-> "none",
                         index |-> j - 1,
                         leader |-> IF rich THEN 2 ELSE -1,
                         leader_epoch |-> IF rich THEN 3 ELSE 0,
                         replica_nodes |-> [k \in 1..nr |-> k],
                         isr_nodes |-> [k \in 1..nr |-> nr + 1 - k],
                         offline_replicas |-> [k \in 1..no |-> k + 2]]],
                    topic_authorized_operations |-> IF rich THEN 5 ELSE 0]],
     cluster_authorized_operations |-> IF rich THEN 6 ELSE 0]

Responses ==
    { ResponseOf(t, r, nb, nt, np, nr, no) :
        t \in ThrottleTimes, r \in BOOLEAN,
        nb \in 0..MaxElems, nt \in 0..MaxElems, np \in 0..MaxElems,
        nr \in 0..MaxElems, no \in 0..MaxElems }

\* the handler's variables while the codec runs on its own
HandlerIdle ==
    /\ version = 0 /\ client = DefaultRequest /\ wire = << >>
    /\ describe_acl = {} /\ create_acl = {} /\ auto_create = FALSE
    /\ cache = {} /\ cache_brokers = << >> /\ controller = None
    /\ pc = "idle" /\ request = DefaultRequest /\ reply = DefaultResponse
    /\ res = << >> /\ origin = << >> /\ new_topics = << >> /\ next = 1
    /\ response = None

InitResp ==
    /\ HandlerIdle
    /\ cpc = "encode"
    /\ cver \in Versions
    /\ cx \in Responses
    /\ cwire = << >>
    /\ cout = << >>

RespEncode ==
    /\ cpc = "encode"
    /\ cwire' = EncodeResponse(cx, cver)
    /\ cpc' = "decode"
    /\ UNCHANGED << cver, cx, cout >>
    /\ UNCHANGED hvars

RespDecode ==
    /\ cpc = "decode"
    /\ cout' = DecodeResponse(cwire, cver)
    /\ cpc' = "decoded"
    /\ UNCHANGED << cver, cx, cwire >>
    /\ UNCHANGED hvars

NextResp == RespEncode \/ RespDecode

SpecResp == InitResp /\ [][NextResp]_vars

(***************************************************************************)
(* Properties.                                                             *)
(***************************************************************************)
\* the handler has passed request.decode
Decoded == pc \in {"get_topic_metadata", "respond", "done", "failed", "aborted"}

\* the bytes the handler reads are the client's whole encoding
WholeWire == Len(wire) = Len(EncodeRequest(client, version))

\* get_topic_metadata has returned the topics of a request that names them
SpecificDone ==
    /\ pc \in {"respond", "done"}
    /\ ~request.list_all_topics
    /\ HasValue(request.topics)

\* the name the client asked for at position i of its list
Requested(i) == ValueOf(client.topics)[i]

StrictlyIncreasing(q) == \A i, j \in 1..Len(q) : i < j => q[i] < q[j]

\* C1: in the specific-topics path the final list is the synchronously
\* resolved entries in request order, followed by the entries of the
\* created topics in the order their creation was submitted, whatever the
\* order in which the creations settled.
C1_SyncThenCreatedInSubmissionOrder ==
    SpecificDone =>
        LET n == Len(res) - Len(new_topics)
        IN  /\ n >= 0
            /\ Len(origin) = Len(res)
            /\ reply.topics = res
            /\ StrictlyIncreasing(SubSeq(origin, 1, n))
            /\ StrictlyIncreasing([i \in 1..Len(new_topics) |-> new_topics[i].req_index])
            /\ \A i \in 1..Len(new_topics) :
                  /\ origin[n + i] = new_topics[i].req_index
                  /\ res[n + i] = new_topics[i].value
            /\ { origin[k] : k \in 1..Len(origin) } = 1..Len(ValueOf(request.topics))

\* a creatable name was asked for before a name resolved at once, and the
\* response lists them the other way round
C1_Witness ==
    /\ pc = "done"
    /\ ~request.list_all_topics
    /\ Len(new_topics) = 1
    /\ origin = << 2, 1 >>

\* C2 (as claimed): a success entry answering the materialized name carries
\* the materialized name, not the name of its source topic.
C2_MaterializedNameEchoed ==
    \A k \in 1..Len(res) :
        (/\ origin[k] > 0
         /\ WholeWire
         /\ Requested(origin[k]) = MaterializedTopic
         /\ res[k].err_code = "none")
        => res[k].name = MaterializedTopic

\* the reader threw while decoding the bytes the handler was given
DecodeThrew == ~DecodeRequestFields(wire, version).ok

\* the entries of res that were pushed by the loop, not by the join
SyncCount == IF pc \in {"respond", "done"} THEN Len(res) - Len(new_topics) ELSE Len(res)

\* C3: no per-topic outcome fails the handler.  The handler fails only when
\* decode threw and ends the process only on the undefined read; until it
\* has responded it can always take a step; no creation future fails; and
\* the list it returns has an entry for every requested name, each fault
\* shown as that entry's error code.
C3_PerTopicFaultsNeverFailRequest ==
    /\ pc = "failed" => DecodeThrew
    /\ pc = "aborted" => DecodeIsUndefined(client.topics, version)
    /\ pc \in {"get_topic_metadata", "respond"} => ENABLED Next
    /\ \A i \in 1..Len(new_topics) : new_topics[i].state # "failed"
    /\ SpecificDone =>
          /\ Len(res) = Len(ValueOf(client.topics))
          /\ \A k \in 1..SyncCount :
                LET src == GetSourceTopic(Requested(origin[k]))
                    absent == TpNs(KafkaNamespace, src) \notin cache
                    off == ~auto_create \/ ~request.allow_auto_topic_creation
                IN  /\ ~Authorized("describe", src)
                         => res[k].err_code = "topic_authorization_failed"
                    /\ (Authorized("describe", src) /\ absent /\ off)
                         => res[k].err_code = "unknown_topic_or_partition"
                    /\ (Authorized("describe", src) /\ absent /\ ~off
                        /\ ~Authorized("create", src))
                         => res[k].err_code = "topic_authorization_failed"
          /\ \A i \in 1..Len(new_topics) :
                /\ new_topics[i].state = "ready"
                /\ new_topics[i].outcome = "exception"
                     => res[SyncCount + i].err_code = "request_timed_out"
                /\ new_topics[i].outcome = "topic_invalid_config"
                     => res[SyncCount + i].err_code = "invalid_config"
    /\ pc = "done" => response = Some(reply)

\* a response that holds a describe denial and a creation that threw
C3_Witness ==
    /\ pc = "done"
    /\ ~request.list_all_topics
    /\ Len(res) = 2
    /\ res[1].err_code = "topic_authorization_failed"
    /\ Len(new_topics) = 1
    /\ new_topics[1].outcome = "exception"
    /\ ValueOf(response).topics[2].err_code = "request_timed_out"

\* the step in which the creation call of future i throws
ThrowsAt(i) ==
    /\ Len(new_topics') = Len(new_topics)
    /\ new_topics[i].state = "pending"
    /\ new_topics'[i].state # "pending"
    /\ new_topics'[i].outcome = "exception"

C4_SettleFrame ==
    \A i \in 1..Len(new_topics) :
        ThrowsAt(i) =>
            /\ new_topics'[i].state = "ready"
            /\ new_topics'[i].value =
                   MakeErrorTopicResponse(Requested(new_topics[i].req_index),
                                          "request_timed_out")
            /\ res' = res
            /\ origin' = origin
            /\ cache' = cache
            /\ pc' = pc
            /\ \A j \in 1..Len(new_topics) : j # i => new_topics'[j] = new_topics[j]

C4_Final ==
    SpecificDone =>
        /\ Len(res) = Len(ValueOf(client.topics))
        /\ \A i \in 1..Len(new_topics) :
              /\ res[SyncCount + i] = new_topics[i].value
              /\ new_topics[i].outcome = "exception" =>
                    /\ res[SyncCount + i].err_code = "request_timed_out"
                    /\ res[SyncCount + i].name = Requested(new_topics[i].req_index)
                    /\ res[SyncCount + i].partitions = << >>

\* C4: a creation call that throws or times out gives its own topic the
\* request_timed_out stub under the requested name and changes nothing else:
\* the entries already in res, the other futures and the cache stay as they
\* were, and the final list holds every future's own value.
C4_FailedCreationIsLocal == [][C4_SettleFrame]_vars /\ []C4_Final

\* one creation threw and another of the same request created its topic
C4_Witness ==
    /\ pc = "done"
    /\ Len(new_topics) = 2
    /\ new_topics[1].outcome = "exception"
    /\ new_topics[2].outcome = "success"
    /\ res[1].err_code = "request_timed_out"
    /\ res[2].err_code = "none"
    /\ Len(res[2].partitions) > 0

\* C5: with auto-create disabled in the configuration no creation is ever
\* submitted, and a describe-authorized name whose source is not in the
\* cache gets the unknown_topic_or_partition stub even when the request
\* allows auto-creation.
C5_AutoCreateDisabledNeverCreates ==
    ~auto_create =>
        /\ new_topics = << >>
        /\ \A k \in 1..Len(res) :
              (/\ origin[k] > 0
               /\ request.allow_auto_topic_creation
               /\ Authorized("describe", GetSourceTopic(Requested(origin[k])))
               /\ TpNs(KafkaNamespace, GetSourceTopic(Requested(origin[k]))) \notin cache)
              => res[k] = MakeErrorTopicResponse(Requested(origin[k]),
                                                 "unknown_topic_or_partition")

C5_Witness ==
    /\ pc = "done"
    /\ ~auto_create
    /\ version >= 4
    /\ request.allow_auto_topic_creation
    /\ ~request.list_all_topics
    /\ Len(res) = 1
    /\ Authorized("describe", Requested(1))
    /\ Authorized("create", Requested(1))
    /\ res[1].err_code = "unknown_topic_or_partition"
    /\ ValueOf(response).topics = res

\* the topics a list-all request is served: in the kafka namespace of the
\* cache and describe-authorized
Served == { t \in TopicNames : TpNs(KafkaNamespace, t) \in cache /\ Authorized("describe", t) }

\* C6: a list-all request gets exactly one success entry for each topic of
\* the cache that is in the kafka namespace and describe-authorized, nothing
\* for any other topic, and submits no creation.
C6_ListAllServesAuthorizedKafkaTopics ==
    (pc \in {"respond", "done"} /\ request.list_all_topics) =>
        /\ new_topics = << >>
        /\ Len(reply.topics) = Cardinality(Served)
        /\ \A t \in Served : \E k \in 1..Len(reply.topics) : reply.topics[k].name = t
        /\ \A k \in 1..Len(reply.topics) :
              /\ reply.topics[k].name \in Served
              /\ reply.topics[k].err_code = "none"
              /\ Len(reply.topics[k].partitions) = Len(PartitionsOf(reply.topics[k].name))

\* the cache holds a and b in the kafka namespace and b in another; only a
\* may be described, and only a is listed
C6_Witness ==
    /\ pc = "done"
    /\ request.list_all_topics
    /\ HasValue(client.topics) = (version = 0)
    /\ TpNs(KafkaNamespace, "a") \in cache
    /\ TpNs(KafkaNamespace, "b") \in cache
    /\ TpNs(InternalNamespace, "b") \in cache
    /\ describe_acl = {"a"}
    /\ Len(ValueOf(response).topics) = 1
    /\ ValueOf(response).topics[1].name = "a"

\* C7: list_all_topics is derived by version: an absent array at version
\* >= 1 and an empty array at version 0 give true; an empty array at
\* version >= 1 gives false with zero topics, and the handler then returns
\* an empty topic list.
C7_ListAllByVersion ==
    (Decoded /\ WholeWire) =>
        /\ (~HasValue(client.topics) /\ version >= 1) =>
              /\ pc \notin {"failed", "aborted"}
              /\ request.list_all_topics
        /\ (client.topics = Some(<< >>) /\ version = 0) =>
              /\ pc \notin {"failed", "aborted"}
              /\ request.list_all_topics
        /\ (client.topics = Some(<< >>) /\ version >= 1) =>
              /\ pc \notin {"failed", "aborted"}
              /\ ~request.list_all_topics
              /\ request.topics = Some(<< >>)
              /\ new_topics = << >>
              /\ pc \in {"respond", "done"} => reply.topics = << >>
              /\ pc = "done" => ValueOf(response).topics = << >>

\* an empty array at version >= 1 was answered with no topic although the
\* cache holds a topic the caller may describe
C7_Witness ==
    /\ pc = "done"
    /\ version >= 1
    /\ client.topics = Some(<< >>)
    /\ Served # {}
    /\ ValueOf(response).topics = << >>

\* C9 (as claimed): at every version 0..8 decoding the encoded request
\* yields a request with the same topic list, absent or present, and the
\* same flags.
C9_RequestRoundTrip ==
    (Decoded /\ WholeWire) =>
        /\ pc \notin {"failed", "aborted"}
        /\ request.topics = client.topics
        /\ request.allow_auto_topic_creation = client.allow_auto_topic_creation
        /\ request.include_cluster_authorized_operations
             = client.include_cluster_authorized_operations
        /\ request.include_topic_authorized_operations
             = client.include_topic_authorized_operations

\* C10: when decode throws, the handler ends there: no response, no entry
\* resolved, no creation submitted, no further step; and cut-short input
\* always makes decode throw.
C10_DecodeFailureRejectsWhole ==
    /\ (Decoded /\ ~WholeWire) => DecodeThrew
    /\ (Decoded /\ DecodeThrew) =>
          /\ pc = "failed"
          /\ response = None
          /\ reply.topics = << >>
          /\ res = << >>
          /\ new_topics = << >>
          /\ next = 1
          /\ ~ENABLED Next

\* a request cut short after its topic count
C10_Witness ==
    /\ pc = "failed"
    /\ ~WholeWire
    /\ Len(wire) >= 1
    /\ response = None

\* every topic entry the handler holds: pushed to res, held by a settled
\* future, put in the reply, or handed to ctx.respond
TopicEntries ==
    { res[k] : k \in 1..Len(res) }
    \cup { new_topics[i].value :
             i \in { j \in 1..Len(new_topics) : new_topics[j].state = "ready" } }
    \cup { reply.topics[k] : k \in 1..Len(reply.topics) }
    \cup (IF HasValue(response)
          THEN { ValueOf(response).topics[k] :
                   k \in 1..Len(ValueOf(response).topics) }
          ELSE { })

\* C11: on every path an entry with an error code has no partitions and
\* zero topic-authorized operations, and an entry with partitions has the
\* error code none.
C11_ErrorStubsCarryNothing ==
    \A e \in TopicEntries :
        /\ e.err_code # "none" =>
              /\ e.partitions = << >>
              /\ e.topic_authorized_operations = 0
        /\ e.partitions # << >> => e.err_code = "none"

\* a version 8 response that asked for the authorized operations: the
\* cached topic has partitions and the operations, the stub of a topic the
\* caller may describe but the cache does not hold has neither
C11_Witness ==
    /\ pc = "done"
    /\ request.include_topic_authorized_operations
    /\ \E e \in TopicEntries :
          /\ e.err_code = "none"
          /\ e.partitions # << >>
          /\ e.topic_authorized_operations # 0
    /\ \E e \in TopicEntries :
          /\ e.err_code = "unknown_topic_or_partition"
          /\ Authorized("describe", e.name)
          /\ e.partitions = << >>
          /\ e.topic_authorized_operations = 0

\* handle has filled in the reply's brokers
BrokersRead == pc \in {"decode", "get_topic_metadata", "respond", "done",
                       "failed", "aborted"}

\* the entries of a broker list that carry a node id
EntriesOf(brokers, id) == SelectSeq(brokers, LAMBDA e : e.node_id = id)

\* the listeners of a broker that are named as the serving listener
ServingListeners(broker) ==
    { l \in 1..Len(broker.listeners) : broker.listeners[l].name = Listener }

\* C12: of the brokers known when handle reads them, each contributes at
\* most one entry: a broker with a listener named as the serving listener
\* contributes that listener's host and port with its own id and rack, whatever
\* the listener's index, and a broker without one contributes nothing; the
\* list holds no other entry.
C12_OneEntryPerBrokerByListener ==
    BrokersRead =>
        /\ \A b \in 1..Len(ClusterBrokers) :
              LET broker == ClusterBrokers[b]
                  es == EntriesOf(reply.brokers, broker.id)
              IN  /\ Len(es) <= 1
                  /\ ServingListeners(broker) = {} => Len(es) = 0
                  /\ ServingListeners(broker) # {} =>
                        /\ Len(es) = 1
                        /\ es[1].rack = broker.rack
                        /\ \E l \in ServingListeners(broker) :
                              /\ es[1].host = broker.listeners[l].host
                              /\ es[1].port = broker.listeners[l].port
        /\ \A k \in 1..Len(reply.brokers) :
              \E b \in 1..Len(ClusterBrokers) :
                  reply.brokers[k].node_id = ClusterBrokers[b].id
        /\ pc = "done" => ValueOf(response).brokers = reply.brokers

\* broker 1 advertises two listeners and is listed once, under the serving
\* one; broker 3 advertises none on the serving listener and is not listed
C12_Witness ==
    /\ pc = "done"
    /\ Len(ClusterBrokers[1].listeners) = 2
    /\ ServingListeners(ClusterBrokers[3]) = {}
    /\ Len(ValueOf(response).brokers) = 2
    /\ ValueOf(response).brokers[1].node_id = 1
    /\ ValueOf(response).brokers[1].host = "h1"
    /\ ValueOf(response).brokers[2].node_id = 2
    /\ EntriesOf(ValueOf(response).brokers, 3) = << >>

\* C13: every partition entry built from the cache has a node id as its
\* leader: the cache's leader when the partition has one, and -1 when it has
\* none.
C13_LeaderOrSentinel ==
    \A e \in TopicEntries :
        e.partitions # << >> =>
            /\ Len(e.partitions) = Len(PartitionsOf(e.name))
            /\ \A j \in 1..Len(e.partitions) :
                  LET p_md == PartitionsOf(e.name)[j]
                  IN  /\ e.partitions[j].index = p_md.id
                      /\ e.partitions[j].leader \in Int
                      /\ HasValue(p_md.leader_node) =>
                            e.partitions[j].leader = ValueOf(p_md.leader_node)
                      /\ ~HasValue(p_md.leader_node) =>
                            e.partitions[j].leader = -1

\* topic b in a response: partition 0 is led by node 2, partition 1 has no
\* elected leader and is listed with leader -1
C13_Witness ==
    /\ pc = "done"
    /\ \E k \in 1..Len(ValueOf(response).topics) :
          LET e == ValueOf(response).topics[k]
          IN  /\ e.name = "b"
              /\ Len(e.partitions) = 2
              /\ e.partitions[1].leader = 2
              /\ ~HasValue(PartitionsOf("b")[2].leader_node)
              /\ e.partitions[2].leader = -1

\* the loop of get_topic_metadata has processed position i of the request
Processed(i) ==
    /\ pc \in {"get_topic_metadata", "respond", "done"}
    /\ ~request.list_all_topics
    /\ HasValue(request.topics)
    /\ i \in 1..Len(ValueOf(request.topics))
    /\ i < next

\* the positions of res that answer position i of the request
AnswersTo(i) == { k \in 1..Len(res) : origin[k] = i }

\* the futures submitted for position i of the request
SubmittedFor(i) == { j \in 1..Len(new_topics) : new_topics[j].req_index = i }

\* C14: a requested name whose source topic the caller may not describe is
\* answered, as soon as the loop has processed it, by one entry that is a
\* function of the requested name alone (topic_authorization_failed, that
\* name, nothing else set), and no creation is submitted for it, whether or
\* not the cache holds the topic and whatever the auto-create settings.
C14_DescribeDeniedHidesExistence ==
    \A i \in 1..MaxTopics + 1 :
        (/\ Processed(i)
         /\ ~Authorized("describe", GetSourceTopic(ValueOf(request.topics)[i])))
        => /\ SubmittedFor(i) = {}
           /\ Cardinality(AnswersTo(i)) = 1
           /\ \A k \in AnswersTo(i) :
                 /\ res[k] = [err_code |-> "topic_authorization_failed",
                              name |-> ValueOf(request.topics)[i],
                              is_internal |-> FALSE,
                              partitions |-> << >>,
                              topic_authorized_operations |-> 0]
                 /\ pc = "done" => ValueOf(response).topics[k] = res[k]

\* one request names a topic the cache holds and one it does not hold, with
\* auto-creation on and create permission on both; the caller may describe
\* neither, and both are answered alike
C14_Witness ==
    /\ pc = "done"
    /\ ~request.list_all_topics
    /\ request.topics = Some(<< "a", "b" >>)
    /\ describe_acl = {}
    /\ create_acl = {"a", "b"}
    /\ auto_create
    /\ request.allow_auto_topic_creation
    /\ TpNs(KafkaNamespace, "a") \in cache
    /\ TpNs(KafkaNamespace, "b") \notin cache
    /\ new_topics = << >>
    /\ ValueOf(response).topics[1].err_code = "topic_authorization_failed"
    /\ ValueOf(response).topics[2].err_code = "topic_authorization_failed"

\* a step of the loop, on the requested name at position next
C15_LoopStep ==
    InLoop =>
        LET topic == ValueOf(request.topics)[next]
            src == GetSourceTopic(topic)
            describe == Authorized("describe", src)
            absent == TpNs(KafkaNamespace, src) \notin cache
            enabled == auto_create
            allowed == request.allow_auto_topic_creation
            create == Authorized("create", src)
        IN  /\ Len(new_topics') > Len(new_topics) =>
                  /\ describe /\ absent /\ enabled /\ allowed /\ create
                  /\ Len(new_topics') = Len(new_topics) + 1
                  /\ new_topics'[Len(new_topics')].topic = topic
                  /\ new_topics'[Len(new_topics')].state = "pending"
                  /\ res' = res
            /\ (describe /\ absent /\ enabled /\ allowed /\ ~create) =>
                  /\ new_topics' = new_topics
                  /\ res' = Append(res, [err_code |-> "topic_authorization_failed",
                                         name |-> topic,
                                         is_internal |-> FALSE,
                                         partitions |-> << >>,
                                         topic_authorized_operations |-> 0])

\* C15: a creation is submitted for a requested name only if, when the loop
\* processes it, the caller may describe the source topic, the cache does
\* not hold it, auto-creation is enabled in the configuration and allowed by
\* the request, and the caller may create the source topic; when only the
\* create permission is missing the name gets the topic_authorization_failed
\* stub and nothing is submitted.  No step outside the loop submits one.
C15_CreationOnlyWhenAllowed ==
    [][/\ C15_LoopStep
       /\ ~InLoop => Len(new_topics') = Len(new_topics)]_vars

\* neither a nor b is in the cache and the caller may describe both but
\* create only b: a got the stub, b was submitted for creation
C15_Witness ==
    /\ pc = "done"
    /\ request.topics = Some(<< "a", "b" >>)
    /\ describe_acl = {"a", "b"}
    /\ create_acl = {"b"}
    /\ auto_create
    /\ request.allow_auto_topic_creation
    /\ Len(new_topics) = 1
    /\ new_topics[1].topic = "b"
    /\ res[1].err_code = "topic_authorization_failed"
    /\ res[1].name = "a"
    /\ origin = << 1, 2 >>

\* the step in which the creation call of future i returns a result
ReturnsAt(i) ==
    /\ Len(new_topics') = Len(new_topics)
    /\ new_topics[i].state = "pending"
    /\ new_topics'[i].state # "pending"
    /\ new_topics'[i].outcome # "exception"

\* an error stub: the error code and the name, nothing else set
Stub(name, ec) ==
    [err_code |-> ec, name |-> name, is_internal |-> FALSE,
     partitions |-> << >>, topic_authorized_operations |-> 0]

C16_ReturnStep ==
    \A i \in 1..Len(new_topics) :
        ReturnsAt(i) =>
            LET ec == new_topics'[i].outcome
                name == ValueOf(request.topics)[new_topics[i].req_index]
                e == new_topics'[i].value
                held == TpNs(KafkaNamespace, name) \in cache'
            IN  /\ new_topics'[i].state = "ready"
                /\ e.name = name
                /\ e.err_code # "topic_already_exists"
                /\ (ec \in {"success", "topic_already_exists"} /\ held) =>
                      /\ e.err_code = "none"
                      /\ e.partitions =
                            [j \in 1..Len(PartitionsOf(name)) |->
                                MakePartition(PartitionsOf(name)[j])]
                      /\ e.partitions # << >>
                /\ (ec \in {"success", "topic_already_exists"} /\ ~held) =>
                      e = Stub(name, "invalid_topic_exception")
                /\ ec = "topic_invalid_config" => e = Stub(name, "invalid_config")
                /\ ec \in {"success", "topic_already_exists", "topic_invalid_config"}

C16_Final ==
    pc = "done" =>
        \A i \in 1..Len(new_topics) :
            ValueOf(response).topics[SyncCount + i] = new_topics[i].value

\* C16: when a creation call returns, success and already-exists re-read
\* the cache as it then is: a success entry built from it when it holds the
\* topic, the invalid_topic_exception stub when it does not; another result
\* gives the stub with the mapped error code; already-exists is never an
\* entry's error code; the entry always carries the requested name, and the
\* response carries the entry.
C16_CreationResultBranches == [][C16_ReturnStep]_vars /\ []C16_Final

\* two creations of one request: one lost the race to another creator and
\* is answered from the cache, one succeeded but the cache does not yet
\* hold its topic
C16_Witness ==
    /\ pc = "done"
    /\ Len(new_topics) = 2
    /\ new_topics[1].outcome = "topic_already_exists"
    /\ new_topics[1].value.err_code = "none"
    /\ new_topics[1].value.partitions # << >>
    /\ new_topics[2].outcome = "success"
    /\ new_topics[2].value.err_code = "invalid_topic_exception"
    /\ ValueOf(response).topics[1].name = ValueOf(request.topics)[1]
    /\ ValueOf(response).topics[2].name = ValueOf(request.topics)[2]

\* every creation submitted has settled
AllSettled == \A i \in 1..Len(new_topics) : new_topics[i].state # "pending"

\* a creation is submitted only while none has settled: the handler does
\* not wait on one creation before it submits the next
C17_SubmitStep ==
    Len(new_topics') > Len(new_topics) =>
        /\ \A i \in 1..Len(new_topics) : new_topics[i].state = "pending"
        /\ \A i \in 1..Len(new_topics') : new_topics'[i].state = "pending"

\* the topics are put in the reply, and the reply is sent, only when every
\* creation has settled; once the handler goes on, no creation is pending
C17_JoinStep ==
    (reply'.topics # reply.topics \/ response' # response) => AllSettled

C17_Joined ==
    (pc \in {"respond", "done"} \/ HasValue(response)) => AllSettled

\* C17: the creations of a request are all submitted before any of them is
\* waited for, so they are pending together, and the handler neither sets
\* the reply's topics nor responds while one of them is unsettled.
C17_ConcurrentCreationsJoined ==
    [][C17_SubmitStep /\ C17_JoinStep]_vars /\ []C17_Joined

\* two creations in flight: the second has settled, the first has not, and
\* the handler is still suspended without a response
C17_Witness ==
    /\ Suspended
    /\ Len(new_topics) = 2
    /\ new_topics[1].state = "pending"
    /\ new_topics[2].state = "ready"
    /\ reply.topics = << >>
    /\ response = None

\* a decoded request goes on to the response and to nothing else
C18_HandlerStep ==
    /\ pc = "get_topic_metadata" => pc' \in {"get_topic_metadata", "respond"}
    /\ pc = "respond" => pc' \in {"respond", "done"}

\* a decoded request that has not responded can take a step; one that
\* needs no creation does not wait
C18_NeverStuck ==
    /\ pc \in {"get_topic_metadata", "respond"} => ENABLED Next
    /\ (Suspended /\ new_topics = << >>) => ENABLED WhenAllSucceed
    /\ pc = "done" => HasValue(response)

\* C18 (as claimed): every request that decode returned goes on, step by
\* step, to a response: it never ends without one, it always has a next
\* step while creations settle, and it does not wait when it submitted no
\* creation.
C18_DecodedRequestResponds == [][C18_HandlerStep]_vars /\ []C18_NeverStuck

\* C18, for the requests whose decode is defined: under the scheduling of
\* FairSpec a request in get_topic_metadata leads to a response.
C18_RespondsWhenDecodeDefined ==
    (pc = "get_topic_metadata" /\ ~DecodeIsUndefined(client.topics, version))
        ~> (pc = "done" /\ HasValue(response))

\* C19: in the specific-topics path every processed occurrence of a name
\* in the request is answered by exactly one entry of res or by exactly one
\* creation, never both; when get_topic_metadata has returned, every
\* occurrence, duplicates included, has exactly one entry, and the lists of
\* the reply and of the response are as long as the requested list.
C19_OneEntryPerRequestedOccurrence ==
    /\ \A i \in 1..MaxTopics + 1 :
          Processed(i) =>
              /\ pc = "get_topic_metadata" =>
                    Cardinality(AnswersTo(i)) + Cardinality(SubmittedFor(i)) = 1
              /\ pc \in {"respond", "done"} =>
                    /\ Cardinality(AnswersTo(i)) = 1
                    /\ Cardinality(SubmittedFor(i)) <= 1
    /\ SpecificDone =>
          /\ next = Len(ValueOf(request.topics)) + 1
          /\ Len(res) = Len(ValueOf(request.topics))
          /\ Len(origin) = Len(res)
          /\ Len(reply.topics) = Len(ValueOf(request.topics))
          /\ pc = "done" =>
                Len(ValueOf(response).topics) = Len(ValueOf(request.topics))

\* the same name asked for twice and created twice, one creation failing
\* and one succeeding: two entries under that name
C19_Witness ==
    /\ pc = "done"
    /\ request.topics = Some(<< "b", "b" >>)
    /\ Len(new_topics) = 2
    /\ new_topics[1].outcome = "exception"
    /\ new_topics[2].outcome = "success"
    /\ Len(ValueOf(response).topics) = 2
    /\ ValueOf(response).topics[1].name = "b"
    /\ ValueOf(response).topics[2].name = "b"

\* the node ids of a broker list, in order
NodeIds(brokers) == [k \in 1..Len(brokers) |-> brokers[k].node_id]

\* once handle has read them, the reply's brokers and controller id do not
\* change; nothing is decoded or submitted before they are read; and a
\* creation that returns reads the cache as the creation left it
C20_Step ==
    /\ pc # "handle" =>
          /\ reply'.brokers = reply.brokers
          /\ reply'.controller_id = reply.controller_id
    /\ pc = "handle" =>
          /\ request' = request
          /\ new_topics' = new_topics /\ new_topics = << >>
          /\ pc' \in {"handle", "decode"}
    /\ \A i \in 1..Len(new_topics) :
          (/\ ReturnsAt(i)
           /\ new_topics'[i].outcome \in {"success", "topic_already_exists"}
           /\ TpNs(KafkaNamespace, new_topics[i].topic) \notin cache
           /\ TpNs(KafkaNamespace, new_topics[i].topic) \in cache')
          => /\ new_topics'[i].value.err_code = "none"
             /\ new_topics'[i].value.partitions # << >>

\* the reply's brokers and controller are those of the cluster as it was
\* when handle began, whatever the cache holds now
C20_AsReadAtStart ==
    BrokersRead =>
        /\ NodeIds(reply.brokers) = << 1, 2 >>
        /\ reply.controller_id = 1
        /\ pc = "done" =>
              /\ ValueOf(response).brokers = reply.brokers
              /\ ValueOf(response).controller_id = reply.controller_id

\* C20: the brokers and the controller id of the reply are read from the
\* cache once, before the request is decoded and before any creation is
\* submitted, and a change of the cache's brokers or controller while the
\* handler is suspended does not reach them; the entry of a created topic
\* is built from the cache as read after the creation.
C20_BrokersReadOnceTopicsReread == [][C20_Step]_vars /\ []C20_AsReadAtStart

\* broker 1, the controller, left while a creation was pending: the
\* response still lists broker 1 and names it controller, and the created
\* topic, which the cache did not hold when it was asked for, is listed
\* with its partitions
C20_Witness ==
    /\ pc = "done"
    /\ controller = None
    /\ NodeIds(ReplyBrokers(cache_brokers)) = << 2 >>
    /\ ValueOf(response).controller_id = 1
    /\ NodeIds(ValueOf(response).brokers) = << 1, 2 >>
    /\ Len(new_topics) = 1
    /\ new_topics[1].outcome = "success"
    /\ TpNs(KafkaNamespace, new_topics[1].topic) \in cache
    /\ ValueOf(response).topics[Len(res)].err_code = "none"
    /\ ValueOf(response).topics[Len(res)].name = new_topics[1].topic
    /\ ValueOf(response).topics[Len(res)].partitions # << >>

(***************************************************************************)
(* Properties of the response codec.                                       *)
(***************************************************************************)
\* x with every field that version v does not carry at its default
RestrictResponse(x, v) ==
    [throttle_time |-> IF v >= 3 THEN x.throttle_time ELSE DefaultResponse.throttle_time,
     brokers |-> [i \in 1..Len(x.brokers) |->
                    [x.brokers[i] EXCEPT
                        !.rack = IF v >= 1 THEN @ ELSE DefaultBroker.rack]],
     cluster_id |-> IF v >= 2 THEN x.cluster_id ELSE DefaultResponse.cluster_id,
     controller_id |-> IF v >= 1 THEN x.controller_id ELSE DefaultResponse.controller_id,
     topics |-> [i \in 1..Len(x.topics) |->
                   [x.topics[i] EXCEPT
                       !.is_internal = IF v >= 1 THEN @ ELSE DefaultTopic.is_internal,
                       !.topic_authorized_operations =
                           IF v >= 8 THEN @ ELSE DefaultTopic.topic_authorized_operations,
                       !.partitions = [j \in 1..Len(@) |->
                           [@[j] EXCEPT
                               !.leader_epoch =
                                   IF v >= 7 THEN @ ELSE DefaultPartition.leader_epoch,
                               !.offline_replicas =
                                   IF v >= 5 THEN @ ELSE DefaultPartition.offline_replicas]]]],
     cluster_authorized_operations |->
         IF v >= 8 THEN x.cluster_authorized_operations
         ELSE DefaultResponse.cluster_authorized_operations]

\* x sets no field that version v does not carry
VersionAppropriate(x, v) == RestrictResponse(x, v) = x

\* C8 (as claimed): at every version a response populated with
\* version-appropriate fields decodes, from its own encoding, to itself.
C8_ResponseRoundTrip ==
    (cpc = "decoded" /\ VersionAppropriate(cx, cver)) =>
        /\ cout.ok
        /\ cout.resp = cx

\* C8 (amended): at every version a response whose throttle time fits the
\* wire's 32-bit integer decodes, from its own encoding, to itself with
\* every field the version does not carry at its default, and the decoder
\* consumes the whole encoding.
C8_ResponseRoundTripInt32 ==
    (cpc = "decoded" /\ cx.throttle_time \in Int32Min..Int32Max) =>
        /\ cout.ok
        /\ Len(cout.buf) = 0
        /\ cout.resp = RestrictResponse(cx, cver)

\* at version 4 a response with a leader epoch, offline replicas and
\* authorized operations came back with the throttle time, the rack and the
\* cluster id kept and the three higher-version fields at their defaults
C8_Witness ==
    /\ cpc = "decoded"
    /\ cver = 4
    /\ cx.throttle_time = 7
    /\ Len(cx.brokers) = 1
    /\ Len(cx.topics) = 1
    /\ Len(cx.topics[1].partitions) = 1
    /\ cx.topics[1].partitions[1].leader_epoch = 3
    /\ Len(cx.topics[1].partitions[1].offline_replicas) = 1
    /\ cx.topics[1].topic_authorized_operations = 5
    /\ cout.ok
    /\ cout.resp.throttle_time = 7
    /\ cout.resp.brokers[1].rack = Some("r")
    /\ cout.resp.cluster_id = Some("c")
    /\ cout.resp.topics[1].partitions[1].leader_epoch = 0
    /\ cout.resp.topics[1].partitions[1].offline_replicas = << >>
    /\ cout.resp.topics[1].topic_authorized_operations = 0

====
